---- MODULE Spec2Model ----
(***************************************************************************)
(* A model of two parts of yosys:                                          *)
(*   kernel/satgen.h           SatGen: literal import, undef modelling,    *)
(*                             width normalisation, mux, property cells    *)
(*   passes/cmds/sensitizepath.cc   the sensitizepath miter construction   *)
(*                                                                         *)
(* Three specifications share the variables:                               *)
(*   SpecImport   one SatGen session, a sequence of import calls           *)
(*   SpecOps      one call of signals_eq / mux / importPropertyCell /      *)
(*                extendSignalWidth on a fresh session                     *)
(*   SpecMiter    one run of the sensitizepath command on a design         *)
(***************************************************************************)
EXTENDS Integers, Sequences, FiniteSets, TLC

VARIABLES
    \* ---- SatGen session (satgen.h:66-74) ----
    prefix,            \* SatGen::prefix
    model_undef,       \* SatGen::model_undef
    ez_literals,       \* ezSAT: the literal names, in allocation order
    imported_signals,  \* SatGen::imported_signals, as a set of [pf, bit, lit]
    aborted,           \* a log_assert failed: the process is gone
    calls,             \* history of the import calls made (ghost)
    \* ---- one operator call (SpecOps) ----
    op,                \* the call made and its inputs
    ret,               \* what it returned
    asg,               \* a truth assignment to the session's literals
    \* ---- the sensitizepath command (SpecMiter) ----
    design,            \* RTLIL::Design: module name -> module
    design0,           \* the design before the command (ghost)
    args,              \* the command line
    pc,                \* where the command is
    worker,            \* SensitizePathWorker
    autoidx            \* the counter behind NEW_ID

satVars == <<prefix, model_undef, ez_literals, imported_signals, aborted, calls>>
opVars == <<op, ret, asg>>
miterVars == <<design, design0, args, pc, worker, autoidx>>
vars == <<prefix, model_undef, ez_literals, imported_signals, aborted, calls,
          op, ret, asg, design, design0, args, pc, worker, autoidx>>

\* The miter variables of a behaviour that runs no command
NoMiter ==
    /\ design = <<>> /\ design0 = <<>> /\ args = <<>>
    /\ pc = "none" /\ worker = <<>> /\ autoidx = 0

\* The SatGen variables of a behaviour that opens no session
NoSat ==
    /\ prefix = "" /\ model_undef = FALSE /\ ez_literals = <<>>
    /\ imported_signals = {} /\ aborted = FALSE /\ calls = <<>>
    /\ op = [fn |-> "none"] /\ ret = [fn |-> "none"] /\ asg = <<>>

(***************************************************************************)
(* Bounds                                                                  *)
(***************************************************************************)
MaxImports == 3
MaxWidth == 2
\* Width of the widest wire of a source module
VWidth == 2

(***************************************************************************)
(* RTLIL signals: a bit is a constant (State) or (wire, offset)            *)
(***************************************************************************)
S0 == "0"
S1 == "1"
Sx == "x"
Sz == "z"

NoWire == [name |-> "", width |-> 0]

ConstBit(s) == [wire |-> NoWire, offset |-> 0, data |-> s]

WireBit(name, width, offset) ==
    [wire |-> [name |-> name, width |-> width], offset |-> offset, data |-> ""]

IsWireBit(bit) == bit.wire # NoWire

\* The wires of the module the session imports from.  A wire's name is the
\* text log_id prints for it.  The names are legal RTLIL identifiers (an
\* escaped Verilog identifier may hold any printable character).
W_w == WireBit("w", 1, 0)
W_w2 == WireBit("w2", 1, 0)
W_xw == WireBit("xw", 1, 0)
W_undef_w == WireBit("undef:w", 1, 0)
W_at1_w == WireBit("@1:w", 1, 0)
W_a0 == WireBit("a", 2, 0)
W_a1 == WireBit("a", 2, 1)
W_a_0 == WireBit("a [0]", 1, 0)

\* The session's canonicalizer (SigMap): w2 is connected to w, xw to 1'bx.
sigmap(bit) ==
    IF bit = W_w2 THEN W_w
    ELSE IF bit = W_xw THEN ConstBit(Sx)
    ELSE bit

sigmap_apply(sig) == [i \in 1..Len(sig) |-> sigmap(sig[i])]

(***************************************************************************)
(* ezSAT literals.  A literal or expression is [k, xs]: k = "lit" with     *)
(* xs = <<id>>, or a connective with its operands.                         *)
(***************************************************************************)
Lit(id) == [k |-> "lit", xs |-> <<id>>]

CONST_TRUE == Lit(1)
CONST_FALSE == Lit(2)

ez_init == <<"CONST_TRUE", "CONST_FALSE">>

\* ezSAT::literal(name) / frozen_literal(name): the literal of that name,
\* allocated on first request, the same one ever after.
ez_frozen_literal(lits, name) ==
    IF \E i \in 1..Len(lits) : lits[i] = name
    THEN [ez |-> lits,
          ret |-> Lit(CHOOSE i \in 1..Len(lits) :
                        lits[i] = name /\ \A j \in 1..(i-1) : lits[j] # name)]
    ELSE [ez |-> Append(lits, name), ret |-> Lit(Len(lits) + 1)]

\* ezSAT::literal() / frozen_literal(): a fresh anonymous literal.
ez_frozen_literal_anon(lits) ==
    [ez |-> Append(lits, ""), ret |-> Lit(Len(lits) + 1)]

(***************************************************************************)
(* SatGen literal import                                                   *)
(***************************************************************************)
\* stringf("%s", log_id(wire)) or stringf("%s [%d]", log_id(wire->name), offset)
BitName(pf, bit) ==
    pf \o (IF bit.wire.width = 1
           THEN bit.wire.name
           ELSE bit.wire.name \o " [" \o ToString(bit.offset) \o "]")

\* imported_signals[pf][bit] = lit
SetImported(imp, pf, bit, lit) ==
    {e \in imp : ~(e.pf = pf /\ e.bit = bit)} \cup {[pf |-> pf, bit |-> bit, lit |-> lit]}

\* The literal a bit that is a constant imports as (satgen.h:96-100);
\* fresh = the bit gets a fresh frozen literal instead.
ConstFresh(bit, undef_mode, dup_undef) ==
    model_undef /\ dup_undef /\ bit.data = Sx

ConstLiteral(bit, undef_mode) ==
    IF bit.data = (IF undef_mode THEN Sx ELSE S1) THEN CONST_TRUE ELSE CONST_FALSE

\* satgen.h:112: prefix + (timestep == -1 ? "" : stringf("@%d:", timestep))
PfValue(pre, timestep) ==
    pre \o (IF timestep = -1 THEN "" ELSE "@" \o ToString(timestep) \o ":")

\* satgen.h:126
PfUndef(pre, timestep) == "undef:" \o PfValue(pre, timestep)

\* The loop of importSigSpecWorker over the bits of the canonical signal.
\* st = [ez, imported, vec]
RECURSIVE WorkerLoop(_, _, _, _, _, _)
WorkerLoop(sig, i, pf, undef_mode, dup_undef, st) ==
    IF i > Len(sig) THEN st
    ELSE LET bit == sig[i] IN
        IF ~IsWireBit(bit)
        THEN IF ConstFresh(bit, undef_mode, dup_undef)
             THEN LET r == ez_frozen_literal_anon(st.ez) IN
                  WorkerLoop(sig, i + 1, pf, undef_mode, dup_undef,
                             [st EXCEPT !.ez = r.ez, !.vec = Append(@, r.ret)])
             ELSE WorkerLoop(sig, i + 1, pf, undef_mode, dup_undef,
                             [st EXCEPT !.vec = Append(@, ConstLiteral(bit, undef_mode))])
        ELSE LET r == ez_frozen_literal(st.ez, BitName(pf, bit)) IN
             WorkerLoop(sig, i + 1, pf, undef_mode, dup_undef,
                        [ez |-> r.ez,
                         imported |-> SetImported(st.imported, pf, bit, r.ret),
                         vec |-> Append(st.vec, r.ret)])

\* SatGen::importSigSpecWorker.  abort = the log_assert of line 89 failed.
importSigSpecWorker(st, sig, pf, undef_mode, dup_undef) ==
    IF undef_mode /\ ~model_undef
    THEN [ez |-> st.ez, imported |-> st.imported, vec |-> <<>>, abort |-> TRUE]
    ELSE LET r == WorkerLoop(sigmap_apply(sig), 1, pf, undef_mode, dup_undef,
                             [ez |-> st.ez, imported |-> st.imported, vec |-> <<>>])
         IN [ez |-> r.ez, imported |-> r.imported, vec |-> r.vec, abort |-> FALSE]

Aborted(st) == [ez |-> st.ez, imported |-> st.imported, vec |-> <<>>, abort |-> TRUE]

\* SatGen::importSigSpec / importDefSigSpec / importUndefSigSpec
importSigSpec(st, sig, timestep) ==
    IF timestep = 0 THEN Aborted(st)
    ELSE importSigSpecWorker(st, sig, PfValue(prefix, timestep), FALSE, FALSE)

\* A mutant of importDefSigSpec: the name prefix of importUndefSigSpec, copied.
importDefSigSpec_UndefPrefix(st, sig, timestep) ==
    IF timestep = 0 THEN Aborted(st)
    ELSE importSigSpecWorker(st, sig, PfUndef(prefix, timestep), FALSE, TRUE)

importDefSigSpec(st, sig, timestep) ==
    IF timestep = 0 THEN Aborted(st)
    ELSE importSigSpecWorker(st, sig, PfValue(prefix, timestep), FALSE, TRUE)

importUndefSigSpec(st, sig, timestep) ==
    IF timestep = 0 THEN Aborted(st)
    ELSE importSigSpecWorker(st, sig, PfUndef(prefix, timestep), TRUE, FALSE)

\* The session as the operators above take it.
Session == [ez |-> ez_literals, imported |-> imported_signals]

(***************************************************************************)
(* ezSAT connectives (the oracle SatGen builds its formulas with) and the  *)
(* truth value of an expression under an assignment to the literals        *)
(***************************************************************************)
ez_NOT(a) == [k |-> "not", xs |-> <<a>>]
ez_AND(a, b) == [k |-> "and", xs |-> <<a, b>>]
ez_OR(a, b) == [k |-> "or", xs |-> <<a, b>>]
ez_IFF(a, b) == [k |-> "iff", xs |-> <<a, b>>]
ez_ITE(c, t, e) == [k |-> "ite", xs |-> <<c, t, e>>]
\* ez->expression(ezSAT::OpAnd, vec)
ez_expression_OpAnd(vec) == [k |-> "and", xs |-> vec]

ez_vec_not(a) == [i \in 1..Len(a) |-> ez_NOT(a[i])]
ez_vec_or(a, b) == [i \in 1..Len(a) |-> ez_OR(a[i], b[i])]
ez_vec_iff(a, b) == [i \in 1..Len(a) |-> ez_IFF(a[i], b[i])]
ez_vec_ite(c, t, e) == [i \in 1..Len(t) |-> ez_ITE(c, t[i], e[i])]
ez_vec_eq(a, b) == ez_expression_OpAnd(ez_vec_iff(a, b))

RECURSIVE Eval(_, _)
Eval(e, a) ==
    CASE e.k = "lit" -> (IF e.xs[1] = 1 THEN TRUE
                         ELSE IF e.xs[1] = 2 THEN FALSE
                         ELSE a[e.xs[1]])
      [] e.k = "not" -> ~Eval(e.xs[1], a)
      [] e.k = "and" -> \A i \in 1..Len(e.xs) : Eval(e.xs[i], a)
      [] e.k = "or" -> \E i \in 1..Len(e.xs) : Eval(e.xs[i], a)
      [] e.k = "iff" -> Eval(e.xs[1], a) = Eval(e.xs[2], a)
      [] e.k = "ite" -> IF Eval(e.xs[1], a) THEN Eval(e.xs[2], a) ELSE Eval(e.xs[3], a)

\* The assignments to the free literals of a session (1 and 2 are constants).
Assignments(lits) == [3..Len(lits) -> BOOLEAN]

(***************************************************************************)
(* SatGen::signals_eq                                                      *)
(***************************************************************************)
OpFail(st) == [ez |-> st.ez, imported |-> st.imported, lit |-> CONST_FALSE, abort |-> TRUE]

OpRet(st, lit) == [ez |-> st.ez, imported |-> st.imported, lit |-> lit, abort |-> FALSE]

\* A mutant of EqBit: the undef flags are not compared.
EqBit_NoUndefIff(vl, ul, vr, ur) == ez_IFF(ez_OR(vl, ul), ez_OR(vr, ur))

\* satgen.h:198-200, one bit position
EqBit(vl, ul, vr, ur) == ez_AND(ez_IFF(ul, ur), ez_IFF(ez_OR(vl, ul), ez_OR(vr, ur)))

signals_eq(st, lhs, rhs, timestep_lhs, timestep_rhs) ==
    LET t_rhs == IF timestep_rhs < 0 THEN timestep_lhs ELSE timestep_rhs IN
    IF Len(lhs) # Len(rhs) THEN OpFail(st)
    ELSE
    LET r1 == importSigSpec(st, lhs, timestep_lhs) IN
    IF r1.abort THEN OpFail(r1) ELSE
    LET r2 == importSigSpec(r1, rhs, t_rhs) IN
    IF r2.abort THEN OpFail(r2) ELSE
    IF ~model_undef THEN OpRet(r2, ez_vec_eq(r1.vec, r2.vec)) ELSE
    LET r3 == importUndefSigSpec(r2, lhs, timestep_lhs)
        r4 == importUndefSigSpec(r3, rhs, t_rhs)
    IN OpRet(r4, ez_expression_OpAnd(
              [i \in 1..Len(lhs) |-> EqBit(r1.vec[i], r3.vec[i], r2.vec[i], r4.vec[i])]))

(***************************************************************************)
(* SatGen::importPropertyCell                                              *)
(***************************************************************************)
\* A mutant of GateUndef: the undef flag is not negated.
GateUndef_NoNot(undef_lit, lit) == ez_AND(undef_lit, lit)

\* satgen.h:169-170
GateUndef(undef_lit, lit) == ez_AND(ez_NOT(undef_lit), lit)

\* satgen.h:173-178
PropertyLit(type, check_bit, enable_bit) ==
    IF type = "$cover" THEN ez_AND(check_bit, enable_bit)
    ELSE ez_OR(ez_NOT(enable_bit), check_bit)

\* cell = [type, A, EN]
importPropertyCell(st, cell, timestep) ==
    IF cell.type \notin {"$assert", "$assume", "$cover"} THEN OpFail(st)
    ELSE
    LET check_sig == sigmap_apply(cell.A)
        en_sig == sigmap_apply(cell.EN)
    IN
    IF Len(check_sig) # 1 \/ Len(en_sig) # 1 THEN OpFail(st)
    ELSE
    LET r1 == importDefSigSpec(st, check_sig, timestep) IN
    IF r1.abort THEN OpFail(r1) ELSE
    LET r2 == importDefSigSpec(r1, en_sig, timestep) IN
    IF ~model_undef
    THEN OpRet(r2, PropertyLit(cell.type, r1.vec[1], r2.vec[1]))
    ELSE
    LET r3 == importUndefSigSpec(r2, check_sig, timestep)
        r4 == importUndefSigSpec(r3, en_sig, timestep)
    IN OpRet(r4, PropertyLit(cell.type, GateUndef(r3.vec[1], r1.vec[1]),
                                         GateUndef(r4.vec[1], r2.vec[1])))

(***************************************************************************)
(* SatGen::mux                                                             *)
(***************************************************************************)
\* A mutant of mux: the operands of the select are swapped.
mux_Swapped(s, undef_s, a, undef_a, b, undef_b) ==
    LET res == ez_vec_ite(s, a, b) IN
    IF model_undef
    THEN LET unequal_ab == ez_vec_not(ez_vec_iff(a, b))
             undef_ab == ez_vec_or(unequal_ab, ez_vec_or(undef_a, undef_b))
         IN [res |-> res,
             undef_res |-> ez_vec_ite(undef_s, undef_ab, ez_vec_ite(s, undef_a, undef_b))]
    ELSE [res |-> res, undef_res |-> <<>>]

mux(s, undef_s, a, undef_a, b, undef_b) ==
    LET res == ez_vec_ite(s, b, a) IN
    IF model_undef
    THEN LET unequal_ab == ez_vec_not(ez_vec_iff(a, b))
             undef_ab == ez_vec_or(unequal_ab, ez_vec_or(undef_a, undef_b))
         IN [res |-> res,
             undef_res |-> ez_vec_ite(undef_s, undef_ab, ez_vec_ite(s, undef_b, undef_a))]
    ELSE [res |-> res, undef_res |-> <<>>]

(***************************************************************************)
(* SatGen::extendSignalWidth                                               *)
(***************************************************************************)
\* cell->parameters: a parameter is "absent", or its value as_bool()
\* satgen.h:206-208
IsSigned(params, forced_signed) ==
    IF ~forced_signed /\ params.A_SIGNED # "absent" /\ params.B_SIGNED # "absent"
    THEN params.A_SIGNED = "true" /\ params.B_SIGNED = "true"
    ELSE forced_signed

\* A mutant of ExtLiteral: an empty signed operand is not special-cased and the
\* extension is by the constant true literal.
ExtLiteral_True(vec, is_signed) ==
    IF is_signed /\ Len(vec) > 0 THEN vec[Len(vec)] ELSE CONST_TRUE

\* is_signed && vec.size() > 0 ? vec.back() : ez->CONST_FALSE
ExtLiteral(vec, is_signed) ==
    IF is_signed /\ Len(vec) > 0 THEN vec[Len(vec)] ELSE CONST_FALSE

\* while (vec.size() < other_size || vec.size() < y_width) vec.push_back(...)
RECURSIVE ExtendLoop(_, _, _, _)
ExtendLoop(vec, other_size, y_width, is_signed) ==
    IF Len(vec) < other_size \/ Len(vec) < y_width
    THEN ExtendLoop(Append(vec, ExtLiteral(vec, is_signed)), other_size, y_width, is_signed)
    ELSE vec

\* while (vec_y.size() < vec_a.size()) vec_y.push_back(ez->literal())
RECURSIVE ExtendYLoop(_, _, _)
ExtendYLoop(vec_y, size, lits) ==
    IF Len(vec_y) < size
    THEN LET r == ez_frozen_literal_anon(lits) IN
         ExtendYLoop(Append(vec_y, r.ret), size, r.ez)
    ELSE [vec_y |-> vec_y, ez |-> lits]

\* extendSignalWidth(vec_a, vec_b, cell, y_width, forced_signed), satgen.h:204
extendSignalWidth4(vec_a, vec_b, params, y_width, forced_signed) ==
    LET is_signed == IsSigned(params, forced_signed)
        a2 == ExtendLoop(vec_a, Len(vec_b), y_width, is_signed)
        b2 == ExtendLoop(vec_b, Len(a2), y_width, is_signed)
    IN [vec_a |-> a2, vec_b |-> b2]

\* extendSignalWidth(vec_a, vec_b, vec_y, cell, forced_signed), satgen.h:215
extendSignalWidth(lits, vec_a, vec_b, vec_y, params, forced_signed) ==
    LET ab == extendSignalWidth4(vec_a, vec_b, params, Len(vec_y), forced_signed)
        y == ExtendYLoop(vec_y, Len(ab.vec_a), lits)
    IN [vec_a |-> ab.vec_a, vec_b |-> ab.vec_b, vec_y |-> y.vec_y, ez |-> y.ez]

(***************************************************************************)
(* SpecImport: a session and a sequence of import calls                    *)
(***************************************************************************)
Timesteps == {-1, 0, 1}

ImportBits == {W_w}

ImportSigs == {<<W_a0, W_a1, W_w2>>, <<W_a_0, W_at1_w, W_undef_w, W_xw, ConstBit(Sx)>>}

InitSat ==
    /\ prefix \in {"", "p."}
    /\ model_undef \in BOOLEAN
    /\ ez_literals = ez_init
    /\ imported_signals = {}
    /\ aborted = FALSE
    /\ calls = <<>>

InitImport ==
    /\ InitSat
    /\ op = [fn |-> "none"] /\ ret = [fn |-> "none"] /\ asg = <<>>
    /\ NoMiter

\* One import call: fn names the entry point, undef the family.
ImportCall(fn, undef, sig, timestep, r) ==
    /\ ~aborted
    /\ Len(calls) < MaxImports
    /\ ez_literals' = r.ez
    /\ imported_signals' = r.imported
    /\ aborted' = r.abort
    /\ calls' = Append(calls, [fn |-> fn, undef |-> undef, sig |-> sig,
                               timestep |-> timestep, abort |-> r.abort, vec |-> r.vec])
    /\ UNCHANGED <<prefix, model_undef, op, ret, asg>>
    /\ UNCHANGED miterVars

DoImportSigSpec ==
    \E sig \in ImportSigs, t \in Timesteps :
        ImportCall("importSigSpec", FALSE, sig, t, importSigSpec(Session, sig, t))

DoImportDefSigSpec ==
    \E sig \in ImportSigs, t \in Timesteps :
        ImportCall("importDefSigSpec", FALSE, sig, t, importDefSigSpec(Session, sig, t))

DoImportUndefSigSpec ==
    \E sig \in ImportSigs, t \in Timesteps :
        ImportCall("importUndefSigSpec", TRUE, sig, t, importUndefSigSpec(Session, sig, t))

\* importSigBit / importDefSigBit / importUndefSigBit (satgen.h:130-149):
\* the worker on the one bit, .front() of the result.
DoImportSigBit ==
    \E bit \in ImportBits, t \in Timesteps :
        ImportCall("importSigBit", FALSE, <<bit>>, t, importSigSpec(Session, <<bit>>, t))

DoImportDefSigBit ==
    \E bit \in ImportBits, t \in Timesteps :
        ImportCall("importDefSigBit", FALSE, <<bit>>, t, importDefSigSpec(Session, <<bit>>, t))

DoImportUndefSigBit ==
    \E bit \in ImportBits, t \in Timesteps :
        ImportCall("importUndefSigBit", TRUE, <<bit>>, t, importUndefSigSpec(Session, <<bit>>, t))

NextImport ==
    \/ DoImportSigSpec
    \/ DoImportDefSigSpec
    \/ DoImportUndefSigSpec
    \/ DoImportSigBit
    \/ DoImportDefSigBit
    \/ DoImportUndefSigBit

SpecImport == InitImport /\ [][NextImport]_vars

(***************************************************************************)
(* SpecOps: one call of an operator on a fresh session                     *)
(***************************************************************************)
SeqsUpTo(S, n) == UNION {[1..k -> S] : k \in 0..n}

OpBits == {W_w, ConstBit(Sx), ConstBit(S1)}

OpSigs == SeqsUpTo(OpBits, MaxWidth)

CellTypes == {"$assert", "$assume", "$cover", "$live"}

ParamValues == {"absent", "true", "false"}

\* n fresh anonymous literals, as a caller gets them from ez->literal()
RECURSIVE ez_alloc(_, _)
ez_alloc(lits, n) == IF n = 0 THEN lits ELSE ez_alloc(Append(lits, ""), n - 1)

\* The literals number first .. first + n - 1, as a vector
LitVec(first, n) == [i \in 1..n |-> Lit(first + i - 1)]

InitOps ==
    /\ prefix = ""
    /\ model_undef \in BOOLEAN
    /\ ez_literals = ez_init
    /\ imported_signals = {}
    /\ aborted = FALSE
    /\ calls = <<>>
    /\ op = [fn |-> "none"] /\ ret = [fn |-> "none"] /\ asg = <<>>
    /\ NoMiter

\* The session after a call that returned r, and an assignment to its literals
AfterCall(r) ==
    /\ ez_literals' = r.ez
    /\ imported_signals' = r.imported
    /\ aborted' = r.abort
    /\ ret' = [fn |-> op'.fn, lit |-> r.lit, abort |-> r.abort]
    /\ asg' \in (IF r.abort THEN {<<>>} ELSE Assignments(r.ez))
    /\ UNCHANGED <<prefix, model_undef, calls>>
    /\ UNCHANGED miterVars

DoSignalsEq ==
    /\ op.fn = "none"
    /\ \E lhs \in OpSigs, rhs \in OpSigs, tl \in Timesteps, tr \in Timesteps :
        /\ op' = [fn |-> "signals_eq", lhs |-> lhs, rhs |-> rhs,
                  timestep_lhs |-> tl, timestep_rhs |-> tr]
        /\ AfterCall(signals_eq(Session, lhs, rhs, tl, tr))

DoImportPropertyCell ==
    /\ op.fn = "none"
    /\ \E type \in CellTypes, A \in OpSigs, EN \in OpSigs, t \in Timesteps :
        /\ op' = [fn |-> "importPropertyCell",
                  cell |-> [type |-> type, A |-> A, EN |-> EN], timestep |-> t]
        /\ AfterCall(importPropertyCell(Session, [type |-> type, A |-> A, EN |-> EN], t))

\* mux on operands of n bits: every operand literal is a literal of its own,
\* so the assignments range over every combination of operand values.
DoMux ==
    /\ op.fn = "none"
    /\ \E n \in 0..MaxWidth :
        LET first == Len(ez_literals) + 1
            s == Lit(first)
            undef_s == Lit(first + 1)
            a == LitVec(first + 2, n)
            undef_a == LitVec(first + 2 + n, n)
            b == LitVec(first + 2 + 2 * n, n)
            undef_b == LitVec(first + 2 + 3 * n, n)
            r == mux(s, undef_s, a, undef_a, b, undef_b)
        IN
        /\ op' = [fn |-> "mux", s |-> s, undef_s |-> undef_s, a |-> a,
                  undef_a |-> undef_a, b |-> b, undef_b |-> undef_b]
        /\ ez_literals' = ez_alloc(ez_literals, 2 + 4 * n)
        /\ ret' = [fn |-> "mux", res |-> r.res, undef_res |-> r.undef_res]
        /\ asg' \in Assignments(ez_literals')
        /\ UNCHANGED <<prefix, model_undef, imported_signals, aborted, calls>>
        /\ UNCHANGED miterVars

\* extendSignalWidth on vectors of na, nb and ny literals of their own
DoExtendSignalWidth ==
    /\ op.fn = "none"
    /\ \E na \in 0..MaxWidth, nb \in 0..MaxWidth, ny \in 0..MaxWidth,
          pa \in ParamValues, pb \in ParamValues, forced_signed \in BOOLEAN :
        LET first == Len(ez_literals) + 1
            vec_a == LitVec(first, na)
            vec_b == LitVec(first + na, nb)
            vec_y == LitVec(first + na + nb, ny)
            params == [A_SIGNED |-> pa, B_SIGNED |-> pb]
            r == extendSignalWidth(ez_alloc(ez_literals, na + nb + ny),
                                   vec_a, vec_b, vec_y, params, forced_signed)
        IN
        /\ op' = [fn |-> "extendSignalWidth", vec_a |-> vec_a, vec_b |-> vec_b,
                  vec_y |-> vec_y, params |-> params, forced_signed |-> forced_signed]
        /\ ez_literals' = r.ez
        /\ ret' = [fn |-> "extendSignalWidth", vec_a |-> r.vec_a, vec_b |-> r.vec_b,
                   vec_y |-> r.vec_y]
        /\ asg' = <<>>
        /\ UNCHANGED <<prefix, model_undef, imported_signals, aborted, calls>>
        /\ UNCHANGED miterVars

(***************************************************************************)
(* SatGen::undefGating.  A call yields the constraints it hands to         *)
(* ez->assume, or fails a log_assert.                                      *)
(***************************************************************************)
GatingFail == [abort |-> TRUE, assumed |-> <<>>]
GatingAssume(e) == [abort |-> FALSE, assumed |-> <<e>>]

\* std::vector<int>(vec.begin(), vec.begin() + n)
Trunc(vec, n) == SubSeq(vec, 1, n)

\* undefGating that takes no shorter indicator vector
undefGating_NoTrunc(undef_mode, vec_y, vec_yy, vec_undef) ==
    IF ~undef_mode THEN GatingFail
    ELSE IF Len(vec_y) # Len(vec_yy) THEN GatingFail
    ELSE IF Len(vec_y) # Len(vec_undef) THEN GatingFail
    ELSE GatingAssume(ez_expression_OpAnd(
            ez_vec_or(vec_undef, ez_vec_iff(vec_y, vec_yy))))

\* undefGating(vec_y, vec_yy, vec_undef)
undefGating(undef_mode, vec_y, vec_yy, vec_undef) ==
    LET trunc_y == Trunc(vec_y, Len(vec_undef))
        trunc_yy == Trunc(vec_yy, Len(vec_undef))
    IN  IF ~undef_mode THEN GatingFail
        ELSE IF Len(vec_y) # Len(vec_yy) THEN GatingFail
        ELSE IF Len(vec_y) > Len(vec_undef)
        THEN GatingAssume(ez_expression_OpAnd(
                ez_vec_or(vec_undef, ez_vec_iff(trunc_y, trunc_yy))))
        ELSE IF Len(vec_y) # Len(vec_undef) THEN GatingFail
        ELSE GatingAssume(ez_expression_OpAnd(
                ez_vec_or(vec_undef, ez_vec_iff(vec_y, vec_yy))))

\* undefGating(int y, int yy, int undef)
undefGatingBit(y, yy, undef) == GatingAssume(ez_OR(undef, ez_IFF(y, yy)))

\* The session after a gating call r on n literals of its own
AfterGating(r, n) ==
    /\ ez_literals' = ez_alloc(ez_literals, n)
    /\ aborted' = r.abort
    /\ ret' = [fn |-> op'.fn, abort |-> r.abort, assumed |-> r.assumed]
    /\ asg' \in (IF r.abort THEN {<<>>} ELSE Assignments(ez_literals'))
    /\ UNCHANGED <<prefix, model_undef, imported_signals, calls>>
    /\ UNCHANGED miterVars

\* The vector call on vectors of ny, nyy and nu literals of their own
DoUndefGating ==
    /\ op.fn = "none"
    /\ \E ny \in 0..MaxWidth, nyy \in 0..MaxWidth, nu \in 0..MaxWidth :
        LET first == Len(ez_literals) + 1
            vec_y == LitVec(first, ny)
            vec_yy == LitVec(first + ny, nyy)
            vec_undef == LitVec(first + ny + nyy, nu)
        IN
        /\ op' = [fn |-> "undefGating", vec_y |-> vec_y, vec_yy |-> vec_yy,
                  vec_undef |-> vec_undef]
        /\ AfterGating(undefGating(model_undef, vec_y, vec_yy, vec_undef),
                       ny + nyy + nu)

\* The scalar call on three literals of their own
DoUndefGatingBit ==
    /\ op.fn = "none"
    /\ LET first == Len(ez_literals) + 1
       IN
       /\ op' = [fn |-> "undefGatingBit", y |-> Lit(first), yy |-> Lit(first + 1),
                 undef |-> Lit(first + 2)]
       /\ AfterGating(undefGatingBit(Lit(first), Lit(first + 1), Lit(first + 2)), 3)

NextOps ==
    \/ DoSignalsEq
    \/ DoImportPropertyCell
    \/ DoMux
    \/ DoExtendSignalWidth
    \/ DoUndefGating
    \/ DoUndefGatingBit

SpecOps == InitOps /\ [][NextOps]_vars

\* imported_signals[pf][bit]
Imported(pf, bit) == (CHOOSE e \in imported_signals : e.pf = pf /\ e.bit = bit).lit

\* The value and the undef flag of a signal bit at a timestep, under asg:
\* of a wire-backed bit, what its imported literals evaluate to; of a
\* constant, what the constant is.
ValueOf(bit, timestep) ==
    LET c == sigmap(bit) IN
    IF IsWireBit(c) THEN Eval(Imported(PfValue(prefix, timestep), c), asg)
    ELSE c.data = S1

UndefOf(bit, timestep) ==
    LET c == sigmap(bit) IN
    IF IsWireBit(c) THEN Eval(Imported(PfUndef(prefix, timestep), c), asg)
    ELSE c.data = Sx

SigEqCall == op.fn = "signals_eq" /\ ~ret.abort

RhsTimestep == IF op.timestep_rhs < 0 THEN op.timestep_lhs ELSE op.timestep_rhs

\* C3: signals_eq(lhs, rhs) on two equal-length vectors returns a literal that
\* is true exactly when, with undef modelling on, at every position the undef
\* flags agree and (value OR undef) agrees; with undef modelling off, exactly
\* when the values agree at every position.
C3_SignalsEq ==
    SigEqCall =>
        Eval(ret.lit, asg) =
            (\A i \in 1..Len(op.lhs) :
                LET vl == ValueOf(op.lhs[i], op.timestep_lhs)
                    vr == ValueOf(op.rhs[i], RhsTimestep)
                IN IF model_undef
                   THEN LET ul == UndefOf(op.lhs[i], op.timestep_lhs)
                            ur == UndefOf(op.rhs[i], RhsTimestep)
                        IN (ul = ur) /\ ((vl \/ ul) = (vr \/ ur))
                   ELSE vl = vr)

\* C3 witness: with undef modelling on, two vectors of two bits whose values
\* differ at a position where both are undefined, found equal.
C3_Witness ==
    /\ SigEqCall /\ model_undef /\ Len(op.lhs) = 2
    /\ \E i \in 1..2 :
        /\ ValueOf(op.lhs[i], op.timestep_lhs) # ValueOf(op.rhs[i], RhsTimestep)
        /\ UndefOf(op.lhs[i], op.timestep_lhs)
        /\ UndefOf(op.rhs[i], RhsTimestep)
    /\ Eval(ret.lit, asg)

MuxCall == op.fn = "mux"

\* The value of the mux result at position i, and what the operands are there
MuxValueOk(i) ==
    Eval(ret.res[i], asg) =
        (IF Eval(op.s, asg) THEN Eval(op.b[i], asg) ELSE Eval(op.a[i], asg))

MuxSelectedUndef(i) ==
    IF Eval(op.s, asg) THEN Eval(op.undef_b[i], asg) ELSE Eval(op.undef_a[i], asg)

\* C4 (amended): with undef modelling on, mux returns at every position the
\* value (s ? b[i] : a[i]) and an undef flag that, when undef_s is true, is
\* true exactly where the operands' values disagree or either operand is
\* undefined (a[i] != b[i] or undef_a[i] or undef_b[i]), and when undef_s is
\* false is the undef flag of the selected operand.
C4_MuxUndef ==
    (MuxCall /\ model_undef) =>
        /\ Len(ret.res) = Len(op.a) /\ Len(ret.undef_res) = Len(op.a)
        /\ \A i \in 1..Len(op.a) :
            /\ MuxValueOk(i)
            /\ Eval(ret.undef_res[i], asg) =
                (IF Eval(op.undef_s, asg)
                 THEN \/ Eval(op.a[i], asg) # Eval(op.b[i], asg)
                      \/ Eval(op.undef_a[i], asg)
                      \/ Eval(op.undef_b[i], asg)
                 ELSE MuxSelectedUndef(i))

\* C4 witness: an undefined select over two operands that agree in value and
\* are both undefined at a position: the result is undefined there.
C4_Witness ==
    /\ MuxCall /\ model_undef /\ Len(op.a) >= 1
    /\ Eval(op.undef_s, asg)
    /\ Eval(op.a[1], asg) = Eval(op.b[1], asg)
    /\ Eval(op.undef_a[1], asg) /\ Eval(op.undef_b[1], asg)
    /\ Eval(ret.undef_res[1], asg)

\* C4 as stated: when undef_s is true the undef flag is true exactly where
\* the operands' values or undef flags disagree.
C4_MuxUndefAsStated ==
    (MuxCall /\ model_undef) =>
        \A i \in 1..Len(op.a) :
            /\ MuxValueOk(i)
            /\ Eval(ret.undef_res[i], asg) =
                (IF Eval(op.undef_s, asg)
                 THEN \/ Eval(op.a[i], asg) # Eval(op.b[i], asg)
                      \/ Eval(op.undef_a[i], asg) # Eval(op.undef_b[i], asg)
                 ELSE MuxSelectedUndef(i))

PropCall == op.fn = "importPropertyCell" /\ ~ret.abort

\* The check and the enable as the obligation uses them: the imported value,
\* conjoined with the negation of its undef flag when undef modelling is on.
\* (An X constant imports, with undef modelling on, as a fresh literal whose
\* undef flag is the constant true, so its value does not matter.)
Defined(bit, timestep) ==
    IF model_undef
    THEN ~UndefOf(bit, timestep) /\ ValueOf(bit, timestep)
    ELSE ValueOf(bit, timestep)

PropCheck == Defined(op.cell.A[1], op.timestep)

PropEnable == Defined(op.cell.EN[1], op.timestep)

\* C5: importPropertyCell returns, for $assert and $assume, a literal
\* equivalent to NOT(en') OR chk', and for $cover one equivalent to
\* en' AND chk', en' and chk' being the imported enable and check, each
\* conjoined with the negation of its undef flag when undef modelling is on.
C5_PropertyCell ==
    PropCall =>
        Eval(ret.lit, asg) =
            (IF op.cell.type = "$cover"
             THEN PropEnable /\ PropCheck
             ELSE ~PropEnable \/ PropCheck)

\* C5 witness: an enabled assert whose check is a wire that is undefined and
\* whose value is true: the obligation is false.
C5_Witness ==
    /\ PropCall /\ model_undef /\ op.cell.type = "$assert"
    /\ IsWireBit(sigmap(op.cell.A[1]))
    /\ UndefOf(op.cell.A[1], op.timestep) /\ ValueOf(op.cell.A[1], op.timestep)
    /\ PropEnable
    /\ ~Eval(ret.lit, asg)

ExtCall == op.fn = "extendSignalWidth"

Max3(x, y, z) ==
    IF x >= y /\ x >= z THEN x ELSE IF y >= z THEN y ELSE z

\* The operation is signed: both A_SIGNED and B_SIGNED set, or forced
ExtSigned ==
    op.forced_signed \/ (op.params.A_SIGNED = "true" /\ op.params.B_SIGNED = "true")

\* vec extends old to length n, every appended literal being old's last
\* literal when the operation is signed and old is nonempty, else CONST_FALSE
ExtendedOperand(vec, old, n) ==
    /\ Len(vec) = n
    /\ \A i \in 1..Len(old) : vec[i] = old[i]
    /\ \A i \in (Len(old) + 1)..n :
        vec[i] = (IF ExtSigned /\ Len(old) > 0 THEN old[Len(old)] ELSE CONST_FALSE)

ExtLengthsAndPadding ==
    LET n == Max3(Len(op.vec_a), Len(op.vec_b), Len(op.vec_y)) IN
    /\ ExtendedOperand(ret.vec_a, op.vec_a, n)
    /\ ExtendedOperand(ret.vec_b, op.vec_b, n)
    /\ Len(ret.vec_y) = n
    /\ \A i \in 1..Len(op.vec_y) : ret.vec_y[i] = op.vec_y[i]

\* C6 (amended): after extendSignalWidth(vec_a, vec_b, vec_y, cell) the three
\* vectors have the same length, the maximum of their lengths before; each
\* keeps its literals as a prefix; every literal appended to vec_a or vec_b
\* is the operand's former most-significant literal when the operation is
\* signed and the operand was nonempty, the constant false literal
\* otherwise; two equal-width unsigned operands are left unchanged when vec_y
\* is no longer than they are.
C6_ExtendSignalWidth ==
    ExtCall =>
        /\ ExtLengthsAndPadding
        /\ (Len(op.vec_a) = Len(op.vec_b) /\ ~ExtSigned /\ Len(op.vec_y) <= Len(op.vec_a))
            => (ret.vec_a = op.vec_a /\ ret.vec_b = op.vec_b)

\* C6 witness: a signed nonempty operand shorter than the result, extended by
\* its most-significant literal.
C6_Witness ==
    /\ ExtCall /\ ExtSigned
    /\ Len(op.vec_a) > 0 /\ Len(ret.vec_a) > Len(op.vec_a)
    /\ ret.vec_a[Len(ret.vec_a)] = op.vec_a[Len(op.vec_a)]

\* C6 as stated: the same, and two equal-width unsigned operands are left
\* unchanged whatever the length of vec_y.
C6_ExtendSignalWidthAsStated ==
    ExtCall =>
        /\ ExtLengthsAndPadding
        /\ (Len(op.vec_a) = Len(op.vec_b) /\ ~ExtSigned)
            => (ret.vec_a = op.vec_a /\ ret.vec_b = op.vec_b)

\* Every wire-backed import made so far: the canonical bit, the timestep, the
\* family (undef or value) and the literal returned for it.
WireImports ==
    {[bit |-> sigmap(calls[c].sig[i]), timestep |-> calls[c].timestep,
      undef |-> calls[c].undef, lit |-> calls[c].vec[i], call |-> c] :
        <<c, i>> \in {p \in (1..Len(calls)) \X (1..5) :
                        /\ ~calls[p[1]].abort
                        /\ p[2] <= Len(calls[p[1]].sig)
                        /\ IsWireBit(sigmap(calls[p[1]].sig[p[2]]))}}

\* C1: within one session (fixed prefix and canonicalizer), any two value
\* imports (importSigSpec, importSigBit, importDefSigSpec, importDefSigBit) of
\* a bit whose canonical form is wire-backed, at the same timestep, return the
\* identical literal, whatever was imported in between.
C1_LiteralStability ==
    \A x, y \in WireImports :
        (~x.undef /\ ~y.undef /\ x.bit = y.bit /\ x.timestep = y.timestep)
            => x.lit = y.lit

\* C1 witness: a bit imported as a value twice, by two different entry points,
\* with a call importing something else in between.
C1_Witness ==
    \E x, y, z \in WireImports :
        /\ ~x.undef /\ ~y.undef /\ x.bit = y.bit /\ x.timestep = y.timestep
        /\ x.call < z.call /\ z.call < y.call
        /\ calls[x.call].fn # calls[y.call].fn
        /\ (z.bit # x.bit \/ z.timestep # x.timestep \/ z.undef)
        /\ x.lit = y.lit

\* C2: literal import never aliases: two wire-backed imports that differ in
\* canonical bit, in timestep or in family (value / undef) return different
\* literals.
C2_NoAliasing ==
    \A x, y \in WireImports :
        (x.bit # y.bit \/ x.timestep # y.timestep \/ x.undef # y.undef)
            => x.lit # y.lit

(***************************************************************************)
(* RTLIL designs as the sensitizepath pass sees them                       *)
(***************************************************************************)
\* RTLIL::IdString; a public name is one that starts with a backslash
Id(pub, str) == [pub |-> pub, str |-> str]
NoId == Id(FALSE, "")
isPublic(name) == name.pub
label_b(name) == Id(name.pub, name.str \o "__b")
label_x(name) == Id(name.pub, name.str \o "__is_x")
NEW_ID(idx) == Id(FALSE, "$auto$" \o ToString(idx))

\* RTLIL::SigBit of a module: a bit of a named wire, or a constant
SigBit(name, offset) == [wire |-> name, offset |-> offset, data |-> ""]
SigConst(s) == [wire |-> NoId, offset |-> 0, data |-> s]
is_wire(bit) == bit.wire # NoId
is_fully_undef(sig) == \A i \in 1..Len(sig) : sig[i] = SigConst(Sx)

\* RTLIL::Wire, and the SigSpec of all its bits
Wire(name, width, pin, pout) ==
    [name |-> name, width |-> width, port_input |-> pin, port_output |-> pout,
     keep |-> FALSE]
WireSig(w) == [i \in 1..w.width |-> SigBit(w.name, i - 1)]

\* RTLIL::Cell: its ports are a function from port names to SigSpecs
Cell(name, type, conn) == [name |-> name, type |-> type, conn |-> conn]

\* cell->known() and cell->output(port) for the cell types of the model
known(cell) == cell.type # "unknown"
output(cell, port) == port \in {"Y", "Q"}

\* Module::fixup_ports: the port list is the wires flagged input or output
fixup_ports(m) ==
    [m EXCEPT !.ports = {m.wires[j].name : j \in
                            {i \in 1..Len(m.wires) :
                                m.wires[i].port_input \/ m.wires[i].port_output}}]

\* RTLIL::Module
Module(wires, cells, connections) ==
    fixup_ports([wires |-> wires, cells |-> cells, connections |-> connections,
                 ports |-> {}, has_memories |-> FALSE, has_processes |-> FALSE])

(***************************************************************************)
(* SigMap: a union-find over the bits of the module's connections.  The     *)
(* driving (right-hand) side becomes the representative, and a constant is *)
(* promoted to representative of its class.                                *)
(***************************************************************************)
Range(f) == {f[x] : x \in DOMAIN f}
Put(f, k, v) == [x \in DOMAIN f \cup {k} |-> IF x = k THEN v ELSE f[x]]

RECURSIVE ifind(_, _)
ifind(par, b) == IF b \in DOMAIN par /\ par[b] # b THEN ifind(par, par[b]) ELSE b

RECURSIVE chain(_, _)
chain(par, k) ==
    IF k \in DOMAIN par /\ par[k] # k THEN {k} \cup chain(par, par[k]) ELSE {k}

ipromote(par, i) ==
    LET c == chain(par, i)
    IN  [x \in DOMAIN par \cup c |-> IF x \in c THEN i ELSE par[x]]

sigmap_add_bit(par, from, to) ==
    LET bf == ifind(par, from)
        bt == ifind(par, to)
        merged == IF bf # bt THEN Put(par, bf, bt) ELSE par
    IN  IF is_wire(bf) \/ is_wire(bt)
        THEN IF ~is_wire(bf) THEN ipromote(merged, bf) ELSE merged
        ELSE par

RECURSIVE sigmap_add(_, _, _, _)
sigmap_add(par, from, to, i) ==
    IF i > Len(from) THEN par
    ELSE sigmap_add(sigmap_add_bit(par, from[i], to[i]), from, to, i + 1)

RECURSIVE sigmap_set(_, _, _)
sigmap_set(par, conns, k) ==
    IF k > Len(conns) THEN par
    ELSE sigmap_set(sigmap_add(par, conns[k][1], conns[k][2], 1), conns, k + 1)

SigMap(m) == sigmap_set(<<>>, m.connections, 1)
sigmap_sig(par, sig) == [i \in 1..Len(sig) |-> ifind(par, sig[i])]

(***************************************************************************)
(* SensitizePathWorker.  A step of run() works on b = [w, m, idx]: the     *)
(* worker's fields, the miter module and the NEW_ID counter.               *)
(***************************************************************************)
addWire(b, wire) == [b EXCEPT !.m.wires = Append(@, wire)]
addCell(b, cell) == [b EXCEPT !.m.cells = Append(@, cell)]
remove(b, cell) == [b EXCEPT !.m.cells = SelectSeq(@, LAMBDA c : c.name # cell.name)]
setPort(b, name, port, sig) ==
    [b EXCEPT !.m.cells = [i \in 1..Len(@) |->
        IF @[i].name = name THEN [@[i] EXCEPT !.conn[port] = sig] ELSE @[i]]]
\* connect that writes to the module at once, as Module::connect does
connect_Direct(b, lhs, rhs) == [b EXCEPT !.m.connections = Append(@, <<lhs, rhs>>)]

connect(b, lhs, rhs) == [b EXCEPT !.w.new_connections = Append(@, <<lhs, rhs>>)]
write_new_connections(b) == [b EXCEPT !.m.connections = b.w.new_connections]

\* Module::Anyseq(NEW_ID, width): a fresh wire driven by a fresh $anyseq cell
Anyseq(b, width) ==
    LET wire == Wire(NEW_ID(b.idx + 1), width, FALSE, FALSE)
        cell == Cell(NEW_ID(b.idx), "$anyseq", ("Y" :> WireSig(wire)))
    IN  [b |-> addCell(addWire([b EXCEPT !.idx = @ + 2], wire), cell),
         sig |-> WireSig(wire)]

\* Module::Nex / Module::Eqx (NEW_ID, sig_a, sig_b): a fresh one-bit wire
\* driven by a fresh comparison cell
Compare(b, type, sig_a, sig_b) ==
    LET wire == Wire(NEW_ID(b.idx + 1), 1, FALSE, FALSE)
        cell == Cell(NEW_ID(b.idx), type,
                     ("A" :> sig_a @@ "B" :> sig_b @@ "Y" :> WireSig(wire)))
    IN  [b |-> addCell(addWire([b EXCEPT !.idx = @ + 2], wire), cell),
         sig |-> WireSig(wire)]

\* wire_map[wire]: a null wire for a wire that was never mapped
wire_map_at(wire_map, name) ==
    IF name \in DOMAIN wire_map THEN wire_map[name] ELSE NoId

\* rewrite_sigspec that leaves the path-A wires in place
rewrite_sigspec_Identity(b, sig) == sig

rewrite_sigspec(b, sig) ==
    [i \in 1..Len(sig) |->
        IF is_wire(sig[i])
        THEN [sig[i] EXCEPT !.wire = wire_map_at(b.w.wire_map, sig[i].wire)]
        ELSE sig[i]]

\* The pending run of x bits becomes one $anyseq shared by both paths
FlushX(r) ==
    IF r.x_len > 0
    THEN LET anyseq == Anyseq(r.b, r.x_len)
         IN  [b |-> anyseq.b, x_len |-> 0,
              sig_a |-> r.sig_a \o anyseq.sig, sig_b |-> r.sig_b \o anyseq.sig]
    ELSE r

RECURSIVE ConstrainLoop(_, _, _)
ConstrainLoop(r, sig, i) ==
    IF i > Len(sig) THEN FlushX(r)
    ELSE IF sig[i] = SigConst(Sx)
    THEN ConstrainLoop([r EXCEPT !.x_len = @ + 1], sig, i + 1)
    ELSE LET f == FlushX(r)
         IN  ConstrainLoop(
                [f EXCEPT !.sig_a = Append(@, sig[i]),
                          !.sig_b = @ \o rewrite_sigspec(f.b, <<sig[i]>>)],
                sig, i + 1)

rewrite_sigspec_constrain(b, sig) ==
    ConstrainLoop([b |-> b, x_len |-> 0, sig_a |-> <<>>, sig_b |-> <<>>], sig, 1)

\* The cross-path comparison that replaces a comparison against 'x
XEqualityGate(type) == IF type = "$eqx" THEN "$nex" ELSE "$eqx"

convert_x_equality(b, eq_cell) ==
    LET sig_a == sigmap_sig(b.w.sigmap, eq_cell.conn["A"])
        sig_b == sigmap_sig(b.w.sigmap, eq_cell.conn["B"])
        new_a == IF is_fully_undef(sig_a) THEN rewrite_sigspec(b, sig_b) ELSE sig_a
        new_b == IF ~is_fully_undef(sig_a) /\ is_fully_undef(sig_b)
                 THEN rewrite_sigspec(b, sig_a) ELSE sig_b
        gate == Compare(b, XEqualityGate(eq_cell.type), new_a, new_b)
        sig_y == eq_cell.conn["Y"]
        b1 == connect(gate.b, sig_y, gate.sig)
        b2 == connect(b1, rewrite_sigspec(b, sig_y), gate.sig)
    IN  IF ~is_fully_undef(sig_a) /\ ~is_fully_undef(sig_b) THEN b
        ELSE remove(b2, eq_cell)

add_x_wire(b, wire_a, wire_b) ==
    IF ~isPublic(wire_a.name) THEN b
    ELSE LET wire_x == [wire_b EXCEPT !.name = label_x(wire_a.name), !.keep = TRUE]
             cell == Cell(NEW_ID(b.idx), "$nex",
                          ("A" :> WireSig(wire_a) @@ "B" :> WireSig(wire_b)
                                                  @@ "Y" :> WireSig(wire_x)))
         IN  addCell(addWire([b EXCEPT !.idx = @ + 1], wire_x), cell)

(***************************************************************************)
(* The loops of run()                                                      *)
(***************************************************************************)
RECURSIVE ForEach(_, _, _, _)
ForEach(Body(_, _), b, seq, i) ==
    IF i > Len(seq) THEN b ELSE ForEach(Body, Body(b, seq[i]), seq, i + 1)

\* undriven_signals.add(sigmap(wire)): the canonical wire bits of a wire
UndrivenCandidates_Raw(b, wire) == Range(WireSig(wire))

UndrivenCandidates(b, wire) ==
    {bit \in Range(sigmap_sig(b.w.sigmap, WireSig(wire))) : is_wire(bit)}

\* for (auto wire : wires)
WireStep(b, wire) ==
    LET wire_b == [wire EXCEPT !.name = NEW_ID(b.idx),
                               !.port_input = FALSE, !.port_output = FALSE]
        b1 == addWire([b EXCEPT !.idx = @ + 1], wire_b)
        b2 == [b1 EXCEPT !.w.wire_map = Put(@, wire.name, wire_b.name)]
        b3 == add_x_wire(b2, wire, wire_b)
        anyseq == Anyseq(b3, wire_b.width)
    IN  IF b.w.opt_constrain_all
        THEN [b3 EXCEPT !.w.undriven_signals = @ \cup UndrivenCandidates(b, wire)]
        ELSE IF wire.port_input
        THEN IF b.w.opt_constrain_inputs
             THEN connect(b3, WireSig(wire_b), WireSig(wire))
             ELSE connect(anyseq.b, WireSig(wire_b), anyseq.sig)
        ELSE b3

\* The ports of a cell, in the order the copy loop visits them
PortOrder == <<"A", "B", "EN", "P", "Y">>
Ports(cell) == SelectSeq(PortOrder, LAMBDA p : p \in DOMAIN cell.conn)

\* for (const auto &conn : cell_b->connections())
RECURSIVE CopyPorts(_, _, _, _)
CopyPorts(b, cell, ports, i) ==
    IF i > Len(ports) THEN b
    ELSE LET port == ports[i]
             new_sigs == rewrite_sigspec_constrain(b, cell.conn[port])
         IN  IF b.w.opt_constrain_all
             THEN CopyPorts(
                    setPort(setPort(new_sigs.b, cell.name, port, new_sigs.sig_a),
                            label_b(cell.name), port, new_sigs.sig_b),
                    cell, ports, i + 1)
             ELSE CopyPorts(
                    setPort(b, label_b(cell.name), port,
                            rewrite_sigspec(b, cell.conn[port])),
                    cell, ports, i + 1)

\* for (auto cell : cells)
CellStep(b, cell) ==
    LET driven == UNION {Range(sigmap_sig(b.w.sigmap, cell.conn[port])) :
                            port \in {p \in DOMAIN cell.conn :
                                        ~known(cell) \/ output(cell, p)}}
        b0 == IF b.w.opt_constrain_all
              THEN [b EXCEPT !.w.undriven_signals = @ \ driven] ELSE b
        sig == cell.conn["Y"]
        cell_b == [cell EXCEPT !.name = label_b(cell.name)]
    IN  IF cell.type \in {"$assert", "$live", "$cover"} THEN b0
        ELSE IF cell.type \in {"$anyseq", "$anyconst", "$allseq", "$allconst"}
        THEN connect(b0, rewrite_sigspec(b0, sig), sig)
        ELSE IF ~b.w.opt_constrain_all /\ cell.type \in {"$eqx", "$nex"}
        THEN convert_x_equality(b0, cell)
        ELSE CopyPorts(addCell(b0, cell_b), cell, Ports(cell), 1)

\* for (auto conn : connections)
ConnStep(b, conn) ==
    LET new_sigs == rewrite_sigspec_constrain(b, conn[2])
        c1 == connect(new_sigs.b, conn[1], new_sigs.sig_a)
    IN  IF b.w.opt_constrain_all
        THEN connect(c1, rewrite_sigspec(b, conn[1]), new_sigs.sig_b)
        ELSE connect(connect(b, conn[1], conn[2]),
                     rewrite_sigspec(b, conn[1]), rewrite_sigspec(b, conn[2]))

\* SigPool::export_all().chunks() for one wire: the maximal runs of
\* consecutive undriven bits
RECURSIVE ChunkScan(_, _, _, _)
ChunkScan(undriven, wire, offset, acc) ==
    IF offset >= wire.width THEN acc
    ELSE IF SigBit(wire.name, offset) \notin undriven
    THEN ChunkScan(undriven, wire, offset + 1, acc)
    ELSE IF acc # <<>> /\ acc[Len(acc)].offset + acc[Len(acc)].width = offset
    THEN ChunkScan(undriven, wire, offset + 1,
                   [acc EXCEPT ![Len(acc)].width = @ + 1])
    ELSE ChunkScan(undriven, wire, offset + 1,
                   Append(acc, [wire |-> wire, offset |-> offset, width |-> 1]))

RECURSIVE export_all(_, _, _)
export_all(undriven, wires, i) ==
    IF i > Len(wires) THEN <<>>
    ELSE ChunkScan(undriven, wires[i], 0, <<>>) \o export_all(undriven, wires, i + 1)

ChunkSig(name, chunk) ==
    [i \in 1..chunk.width |-> SigBit(name, chunk.offset + i - 1)]

\* for (auto &chunk_a : undriven_sig.chunks())
UndrivenStep(b, chunk_a) ==
    LET sig_a == ChunkSig(chunk_a.wire.name, chunk_a)
        chunk_b == ChunkSig(wire_map_at(b.w.wire_map, chunk_a.wire.name), chunk_a)
        anyseq == Anyseq(b, chunk_a.width)
    IN  IF chunk_a.wire.port_input
        THEN connect(b, chunk_b, sig_a)
        ELSE connect(connect(anyseq.b, sig_a, anyseq.sig), chunk_b, anyseq.sig)

(***************************************************************************)
(* SpecMiter: the sensitizepath command on a design                        *)
(***************************************************************************)
\* The source modules: an input i, an output y, a public wire a, a private
\* wire $b and a wider wire v, each with at most one driver
w_i == Wire(Id(TRUE, "i"), 1, TRUE, FALSE)
w_y == Wire(Id(TRUE, "y"), 1, FALSE, TRUE)
w_a == Wire(Id(TRUE, "a"), 1, FALSE, FALSE)
w_b == Wire(Id(FALSE, "$b"), 1, FALSE, FALSE)
w_v == Wire(Id(TRUE, "v"), VWidth, FALSE, FALSE)
SrcWires == <<w_i, w_y, w_a, w_b, w_v>>

AllX(n) == [i \in 1..n |-> SigConst(Sx)]
PartX(n) == [i \in 1..n |-> IF i = 1 THEN SigConst(Sx) ELSE SigConst(S0)]
Binary(name, type, sig_a, sig_b, sig_y) ==
    Cell(Id(TRUE, name), type, ("A" :> sig_a @@ "B" :> sig_b @@ "Y" :> sig_y))
Part(cells, connections) == [cells |-> cells, connections |-> connections]

\* What drives y
YDrivers ==
    {Part(<<>>, <<>>)} \cup
    {Part(<<Binary("eq", type, ab[1], ab[2], WireSig(w_y))>>, <<>>) :
        type \in {"$eqx", "$nex"},
        ab \in {<<WireSig(w_a), AllX(1)>>, <<AllX(1), WireSig(w_a)>>,
                <<AllX(1), AllX(1)>>, <<WireSig(w_a), WireSig(w_i)>>,
                <<WireSig(w_v), AllX(VWidth)>>, <<WireSig(w_v), PartX(VWidth)>>}}

\* What drives $b
BDrivers ==
    {Part(<<>>, <<>>),
     Part(<<Binary("g", "$and", WireSig(w_i), WireSig(w_a), WireSig(w_b))>>, <<>>),
     Part(<<Binary("g", "$and", AllX(1), WireSig(w_i), WireSig(w_b))>>, <<>>),
     Part(<<>>, <<<<WireSig(w_b), WireSig(w_a)>>>>)}

\* What drives a; the last choice drives it twice
ADrivers ==
    {Part(<<>>, <<>>),
     Part(<<>>, <<<<WireSig(w_a), WireSig(w_b)>>,
                  <<WireSig(w_a), SubSeq(WireSig(w_v), 2, 2)>>>>),
     Part(<<Cell(Id(FALSE, "$any"), "$anyseq", ("Y" :> WireSig(w_a)))>>, <<>>),
     Part(<<>>, <<<<WireSig(w_a), WireSig(w_i)>>>>),
     Part(<<>>, <<<<WireSig(w_a), AllX(1)>>>>)}

\* What drives v, all of it or its lowest bit only
VDrivers ==
    {Part(<<>>, <<>>),
     Part(<<>>, <<<<SubSeq(WireSig(w_v), 1, 1), WireSig(w_i)>>>>),
     Part(<<>>, <<<<WireSig(w_v), PartX(VWidth)>>>>),
     Part(<<Cell(Id(TRUE, "u"), "unknown", ("P" :> WireSig(w_v)))>>, <<>>)}

\* A property over $b
Properties ==
    {Part(<<>>, <<>>),
     Part(<<Cell(Id(TRUE, "chk"), "$assert",
                 ("A" :> WireSig(w_b) @@ "EN" :> <<SigConst(S1)>>))>>, <<>>)}

SrcModules ==
    {Module(SrcWires,
            y.cells \o b.cells \o a.cells \o v.cells \o p.cells,
            y.connections \o b.connections \o a.connections \o v.connections) :
        y \in YDrivers, b \in BDrivers, a \in ADrivers, v \in VDrivers,
        p \in Properties}

\* The command lines
OptionLists ==
    {<<>>, <<"-constrain_inputs">>, <<"-constrain_undef">>,
     <<"-constrain_inputs", "-constrain_undef">>, <<"-bogus">>}
ModuleLists ==
    {<<"top", "miter">>, <<"nomod", "miter">>, <<"memmod", "miter">>,
     <<"procmod", "miter">>, <<"top", "memmod">>, <<"top">>,
     <<"top", "miter", "extra">>}
CmdLines == {<<"sensitizepath">> \o o \o m : o \in OptionLists, m \in ModuleLists}

\* args[argidx][0] == '-'
StartsWithDash(arg) == arg \in {"-constrain_inputs", "-constrain_undef", "-bogus"}

InitMiter ==
    /\ NoSat
    /\ \E top \in SrcModules :
        design = ("top" :> top
                  @@ "memmod" :> [top EXCEPT !.has_memories = TRUE]
                  @@ "procmod" :> [top EXCEPT !.has_processes = TRUE])
    /\ design0 = design
    /\ args = <<>>
    /\ pc = "idle"
    /\ worker = <<>>
    /\ autoidx = 1

\* The option loop of execute(): the index of the first argument that is not
\* an option, the options seen, and whether an unknown option stopped it
RECURSIVE ParseOptions(_, _, _)
ParseOptions(a, argidx, opts) ==
    IF argidx > Len(a) THEN [opts EXCEPT !.argidx = argidx]
    ELSE IF a[argidx] = "-constrain_inputs"
    THEN ParseOptions(a, argidx + 1, [opts EXCEPT !.opt_constrain_inputs = TRUE])
    ELSE IF a[argidx] = "-constrain_undef"
    THEN ParseOptions(a, argidx + 1, [opts EXCEPT !.opt_constrain_all = TRUE])
    ELSE IF StartsWithDash(a[argidx])
    THEN [opts EXCEPT !.argidx = argidx, !.error = "Unknown option."]
    ELSE [opts EXCEPT !.argidx = argidx]

\* execute() without the check that the miter module does not exist yet
ExecuteError_NoMiterCheck(a, d) ==
    LET opts == ParseOptions(a, 2, [argidx |-> 2, error |-> "",
                                    opt_constrain_inputs |-> FALSE,
                                    opt_constrain_all |-> FALSE])
        argidx == opts.argidx
    IN  IF opts.error # "" THEN opts.error
        ELSE IF Len(a) # argidx + 1 THEN "Invalid number of module arguments."
        ELSE IF a[argidx] \notin DOMAIN d THEN "Can't find source module."
        ELSE IF d[a[argidx]].has_memories \/ d[a[argidx]].has_processes
        THEN "Source module contains memories or processes."
        ELSE ""

\* The error execute() raises on command line a and design d, or "" when it
\* goes on to build the miter
ExecuteError(a, d) ==
    LET opts == ParseOptions(a, 2, [argidx |-> 2, error |-> "",
                                    opt_constrain_inputs |-> FALSE,
                                    opt_constrain_all |-> FALSE])
        argidx == opts.argidx
    IN  IF opts.error # "" THEN opts.error
        ELSE IF Len(a) # argidx + 1 THEN "Invalid number of module arguments."
        ELSE IF a[argidx] \notin DOMAIN d THEN "Can't find source module."
        ELSE IF a[argidx + 1] \in DOMAIN d THEN "Miter module already exists."
        ELSE IF d[a[argidx]].has_memories \/ d[a[argidx]].has_processes
        THEN "Source module contains memories or processes."
        ELSE ""

\* The worker execute() hands to run()
NewWorker(a) ==
    LET opts == ParseOptions(a, 2, [argidx |-> 2, error |-> "",
                                    opt_constrain_inputs |-> FALSE,
                                    opt_constrain_all |-> FALSE])
    IN  [opt_constrain_inputs |-> opts.opt_constrain_inputs,
         opt_constrain_all |-> opts.opt_constrain_all,
         src_module |-> a[opts.argidx], miter |-> a[opts.argidx + 1],
         sigmap |-> <<>>, wire_map |-> <<>>, new_connections |-> <<>>,
         undriven_signals |-> {}, wires |-> <<>>, cells |-> <<>>,
         connections |-> <<>>]

\* execute(), up to the call of run()
Execute ==
    /\ pc = "idle"
    /\ \E a \in CmdLines :
        /\ args' = a
        /\ IF ExecuteError(a, design) # ""
           THEN /\ pc' = "error"
                /\ UNCHANGED <<design, worker>>
           ELSE /\ pc' = "run"
                /\ worker' = NewWorker(a)
                /\ design' = Put(design, NewWorker(a).miter,
                                 Module(<<>>, <<>>, <<>>))
    /\ UNCHANGED <<design0, autoidx, satVars, opVars>>

\* The state a step of run() works on, and the state it leaves
Work == [w |-> worker, m |-> design[worker.miter], idx |-> autoidx]
Leave(b, next) ==
    /\ worker' = b.w
    /\ design' = [design EXCEPT ![worker.miter] = b.m]
    /\ autoidx' = b.idx
    /\ pc' = next
    /\ UNCHANGED <<design0, args, satVars, opVars>>

\* src_module->cloneInto(miter), the SigMap of the miter, and the snapshots
\* of its wires, cells and connections
RunClone ==
    /\ pc = "run"
    /\ LET m == design[worker.src_module]
       IN  Leave([Work EXCEPT !.m = m,
                              !.w.sigmap = SigMap(m),
                              !.w.wires = m.wires,
                              !.w.cells = m.cells,
                              !.w.connections = m.connections], "wires")

RunWires ==
    /\ pc = "wires"
    /\ Leave(ForEach(WireStep, Work, worker.wires, 1), "cells")

RunCells ==
    /\ pc = "cells"
    /\ Leave(ForEach(CellStep, Work, worker.cells, 1), "connections")

RunConnections ==
    /\ pc = "connections"
    /\ Leave(ForEach(ConnStep, Work, worker.connections, 1), "fixup_ports")

RunFixupPorts ==
    /\ pc = "fixup_ports"
    /\ Leave([Work EXCEPT !.m = fixup_ports(@)], "undriven")

RunUndriven ==
    /\ pc = "undriven"
    /\ Leave(IF worker.opt_constrain_all
             THEN ForEach(UndrivenStep, Work,
                          export_all(worker.undriven_signals, worker.wires, 1), 1)
             ELSE Work, "write")

RunWriteNewConnections ==
    /\ pc = "write"
    /\ Leave(write_new_connections(Work), "done")

NextMiter ==
    \/ Execute
    \/ RunClone
    \/ RunWires
    \/ RunCells
    \/ RunConnections
    \/ RunFixupPorts
    \/ RunUndriven
    \/ RunWriteNewConnections

SpecMiter == InitMiter /\ [][NextMiter]_vars

(***************************************************************************)
(* Properties of the finished command                                      *)
(***************************************************************************)
Failed == pc = "error"
Done == pc = "done"
Src == design0[worker.src_module]
Miter == design[worker.miter]
WireNamed(m, name) == CHOOSE w \in Range(m.wires) : w.name = name
BitsOf(m) == UNION {Range(WireSig(w)) : w \in Range(m.wires)}
Shadow(bit) == rewrite_sigspec([w |-> worker], <<bit>>)[1]

\* The places of module m that drive a bit: a position of the left-hand side
\* of a connection, or of an output port of a cell (any port of an unknown
\* cell)
ConnDrivers(m, bit) ==
    {d \in UNION {{<<c, k>> : k \in DOMAIN m.connections[c][1]} :
                    c \in DOMAIN m.connections} :
        m.connections[d[1]][1][d[2]] = bit}
CellDrivers(m, bit) ==
    {d \in UNION {UNION {{<<c, p, k>> : k \in DOMAIN m.cells[c].conn[p]} :
                            p \in DOMAIN m.cells[c].conn} : c \in DOMAIN m.cells} :
        /\ ~known(m.cells[d[1]]) \/ output(m.cells[d[1]], d[2])
        /\ m.cells[d[1]].conn[d[2]][d[3]] = bit}
DriverCount(m, bit) ==
    Cardinality(ConnDrivers(m, bit)) + Cardinality(CellDrivers(m, bit))
Free(m, bit) == DriverCount(m, bit) = 0

\* The one connection that drives a bit of m, as <<bit, driving bit>>
OnlyConnDriver(m, bit, from) ==
    /\ CellDrivers(m, bit) = {}
    /\ \E d \in ConnDrivers(m, bit) :
        /\ ConnDrivers(m, bit) = {d}
        /\ m.connections[d[1]][2][d[2]] = from

\* The bits of the $anyseq cells the pass added to the miter
NewAnyseqBits ==
    UNION {Range(c.conn["Y"]) :
            c \in {x \in Range(Miter.cells) :
                    x.type = "$anyseq" /\ x \notin Range(Src.cells)}}

\* No bit of m has two drivers, a primary input counting as driven
SingleDriver(m) ==
    \A bit \in BitsOf(m) :
        DriverCount(m, bit) <= (IF WireNamed(m, bit.wire).port_input THEN 0 ELSE 1)

\* Every bit of a source wire that no cell and no connection drives is
\* constrained exactly once in the miter: the shadow of a bit of a primary
\* input is driven by the original bit and by nothing else, any other such bit
\* and its shadow are each driven once, by the same bit of an $anyseq cell the
\* pass added
UndrivenConstrained ==
    \A bit \in BitsOf(Src) : Free(Src, bit) =>
        IF WireNamed(Src, bit.wire).port_input
        THEN Free(Miter, bit) /\ OnlyConnDriver(Miter, Shadow(bit), bit)
        ELSE \E any \in NewAnyseqBits :
                /\ OnlyConnDriver(Miter, bit, any)
                /\ OnlyConnDriver(Miter, Shadow(bit), any)

Unchanged == design = design0
\* The design is as it was before the command, plus one module dst
Built(dst) ==
    /\ dst \notin DOMAIN design0
    /\ DOMAIN design = DOMAIN design0 \cup {dst}
    /\ \A n \in DOMAIN design0 : design[n] = design0[n]

\* The arguments that are not options, and the conditions the usage names
ModuleArgs(a) == SelectSeq(Tail(a), LAMBDA x : ~StartsWithDash(x))
SourceMissing(a, d) == Len(ModuleArgs(a)) < 1 \/ ModuleArgs(a)[1] \notin DOMAIN d
DestExists(a, d) == Len(ModuleArgs(a)) >= 2 /\ ModuleArgs(a)[2] \in DOMAIN d
SourceUnlowered(a, d) ==
    /\ ~SourceMissing(a, d)
    /\ d[ModuleArgs(a)[1]].has_memories \/ d[ModuleArgs(a)[1]].has_processes

\* The position after the leading -constrain_inputs / -constrain_undef options
KnownOption(arg) == arg \in {"-constrain_inputs", "-constrain_undef"}
FirstNonOption(a) ==
    CHOOSE k \in 2..(Len(a) + 1) :
        /\ \A j \in 2..(k - 1) : KnownOption(a[j])
        /\ k = Len(a) + 1 \/ ~KnownOption(a[k])
BadCommandLine(a) ==
    LET k == FirstNonOption(a)
    IN  \/ k <= Len(a) /\ StartsWithDash(a[k])
        \/ Len(a) - k + 1 # 2

EqCells == {c \in Range(Src.cells) : c.type \in {"$eqx", "$nex"}}
CellNames(m) == {c.name : c \in Range(m.cells)}
Rewritten(c) == c.name \notin CellNames(Miter)
Canonical(sig) == sigmap_sig(SigMap(Src), sig)
OperandUndef(c, port) == is_fully_undef(Canonical(c.conn[port]))
OtherOperand(c) ==
    IF OperandUndef(c, "A") THEN Canonical(c.conn["B"]) ELSE Canonical(c.conn["A"])
ShadowSig(sig) == [k \in DOMAIN sig |-> Shadow(sig[k])]

\* The miter has a comparison cell the pass added whose operands are the other
\* operand of c and its shadow, and whose output is the one driver of the
\* output of c and of its shadow
CrossCopyGate(c) ==
    \E g \in Range(Miter.cells) :
        /\ g \notin Range(Src.cells)
        /\ g.type \in {"$eqx", "$nex"}
        /\ {g.conn["A"], g.conn["B"]} = {OtherOperand(c), ShadowSig(OtherOperand(c))}
        /\ \A k \in DOMAIN c.conn["Y"] :
            /\ OnlyConnDriver(Miter, c.conn["Y"][k], g.conn["Y"][k])
            /\ OnlyConnDriver(Miter, Shadow(c.conn["Y"][k]), g.conn["Y"][k])

RewrittenWell(c) ==
    Rewritten(c) => label_b(c.name) \notin CellNames(Miter) /\ CrossCopyGate(c)

C10_ShadowCopies ==
    Done => \A c \in Range(Src.cells) :
        (/\ c.type \notin {"$assert", "$cover", "$live"}
         /\ c.type \notin {"$anyseq", "$anyconst", "$allseq", "$allconst"}
         /\ ~(c.type \in {"$eqx", "$nex"} /\ Rewritten(c)))
        => \E i \in DOMAIN Miter.cells :
            /\ \A j \in DOMAIN Miter.cells :
                Miter.cells[j].name = label_b(c.name) <=> j = i
            /\ Miter.cells[i].type = c.type
            /\ DOMAIN Miter.cells[i].conn = DOMAIN c.conn
            /\ \A p \in DOMAIN c.conn : \A k \in DOMAIN c.conn[p] :
                is_wire(c.conn[p][k]) =>
                    Miter.cells[i].conn[p][k] = Shadow(c.conn[p][k])

(***************************************************************************)
(* undefGating                                                             *)
(***************************************************************************)
GatingCall == op.fn = "undefGating"
GatingBitCall == op.fn = "undefGatingBit"
Val(lit) == Eval(lit, asg)

\* The call added no constraint / added one constraint, which the assignment
\* satisfies exactly when the indicator is true or the candidates agree at
\* each of the positions 1..n
NoConstraint == ret.assumed = <<>>
GatesPositions(n) ==
    /\ Len(ret.assumed) = 1
    /\ Eval(ret.assumed[1], asg) <=>
        \A i \in 1..n :
            Val(op.vec_undef[i]) \/ (Val(op.vec_y[i]) <=> Val(op.vec_yy[i]))
GatesBit ==
    /\ Len(ret.assumed) = 1
    /\ Eval(ret.assumed[1], asg) <=>
        (Val(op.undef) \/ (Val(op.y) <=> Val(op.yy)))

\* C11: the vector call fails an assertion and adds no constraint when undef
\* modeling is disabled, when the two candidate vectors differ in length or
\* when they are shorter than the indicator vector; otherwise it adds exactly
\* the constraint that at every position of the indicator vector the
\* indicator is true or the candidates agree (candidates longer than the
\* indicator vector are cut to its length).  The scalar call never fails and
\* always adds the constraint that the indicator is true or the candidates
\* agree, whether or not undef modeling is enabled.
C11_UndefGating ==
    /\ GatingCall =>
        IF \/ ~model_undef
           \/ Len(op.vec_y) # Len(op.vec_yy)
           \/ Len(op.vec_y) < Len(op.vec_undef)
        THEN ret.abort /\ NoConstraint
        ELSE ~ret.abort /\ GatesPositions(Len(op.vec_undef))
    /\ GatingBitCall => ~ret.abort /\ GatesBit

\* C11 witness: a vector call with candidates longer than a nonempty
\* indicator vector, whose constraint the assignment falsifies
C11_Witness ==
    /\ GatingCall /\ ~ret.abort
    /\ Len(op.vec_y) > Len(op.vec_undef) /\ Len(op.vec_undef) > 0
    /\ GatesPositions(Len(op.vec_undef))
    /\ ~Eval(ret.assumed[1], asg)

\* C11 as stated: every call, vector or scalar, fails and adds no constraint
\* when undef modeling is disabled or the three vectors are not all of one
\* length, and otherwise adds the constraint over every position.
C11_UndefGatingAsStated ==
    /\ GatingCall =>
        IF \/ ~model_undef
           \/ Len(op.vec_y) # Len(op.vec_yy)
           \/ Len(op.vec_y) # Len(op.vec_undef)
        THEN ret.abort /\ NoConstraint
        ELSE ~ret.abort /\ GatesPositions(Len(op.vec_y))
    /\ GatingBitCall =>
        IF ~model_undef THEN ret.abort /\ NoConstraint
        ELSE ~ret.abort /\ GatesBit

(***************************************************************************)
(* The two phases of a miter construction                                  *)
(***************************************************************************)
Running ==
    pc \in {"run", "wires", "cells", "connections", "fixup_ports", "undriven",
            "write", "done"}
MiterConnections == IF Running THEN design[worker.miter].connections ELSE <<>>
MiterPorts == IF Running THEN design[worker.miter].ports ELSE {}
Accumulated == IF Running THEN worker.new_connections ELSE <<>>
IsPrefix(s, t) == Len(s) <= Len(t) /\ SubSeq(t, 1, Len(s)) = s
\* miter->fixup_ports() has run / write_new_connections() has run
PortsRecomputed == pc \in {"undriven", "write", "done"}
Committed == pc = "done"

\* C12: in every step of a miter construction the accumulated connections
\* only grow; the miter's connection list changes only when the clone copies
\* the source's connections into it and when the commit replaces it by all the
\* accumulated connections; the commit is the last step of all, after the
\* undriven-wire constraints; and the port list is recomputed before the
\* commit, while the connection list is still the clone's, and no later step
\* changes it.
C12_TwoPhase ==
    [][/\ ~Committed
       /\ IsPrefix(Accumulated, Accumulated')
       /\ MiterConnections' # MiterConnections => pc = "run" \/ Committed'
       /\ pc = "run" =>
            MiterConnections' = design[worker.src_module].connections
       /\ Committed' =>
            /\ pc = "write"
            /\ Accumulated' = Accumulated
            /\ MiterConnections' = Accumulated
       /\ pc = "fixup_ports" =>
            /\ PortsRecomputed' /\ ~Committed'
            /\ MiterConnections' = MiterConnections
       /\ PortsRecomputed => MiterPorts' = MiterPorts
      ]_vars

\* C12 witness: a finished -constrain_undef construction whose commit wrote
\* connections, undriven-wire constraints among them, over the clone's
C12_Witness ==
    /\ Committed /\ worker.opt_constrain_all
    /\ worker.undriven_signals # {}
    /\ Src.connections # <<>>
    /\ MiterConnections = Accumulated
    /\ Len(Accumulated) > 2 * Len(Src.connections)
    /\ MiterPorts = fixup_ports(Miter).ports

\* C12 as stated: the accumulated connections only grow, the connection list
\* is written by the commit alone (the clone apart), and the port list is
\* recomputed after the commit, not before it.
C12_TwoPhaseAsStated ==
    [][/\ IsPrefix(Accumulated, Accumulated')
       /\ MiterConnections' # MiterConnections => pc = "run" \/ Committed'
       /\ Committed' => MiterConnections' = Accumulated
       /\ pc = "fixup_ports" => Committed
      ]_vars

====
